---- MODULE Spec2Model ----
(***************************************************************************)
(* Model of the cart state container of src/hooks/useCart.tsx              *)
(* (CartProvider): the React state `cart`, the localStorage entry          *)
(* '@RocketShoes:cart', the objects the cart arrays point to, and the      *)
(* three operations addProduct, removeProduct and updateProductAmount.     *)
(* The operations are re-created by every render and close over the `cart` *)
(* of their render; a caller may hold the functions of any render so far.  *)
(* An asynchronous operation runs synchronously up to its first await and  *)
(* then one step per settled request; every step works on the `cart`       *)
(* array its closure captured.                                             *)
(*                                                                         *)
(* The environment: localStorage holds nothing, an undecodable text, a     *)
(* decodable text that is not an array, or a serialized array of entries   *)
(* with any quantities and ids; localStorage.setItem may throw; GET        *)
(* products/{id} returns the product with that id; GET stock/{id} reports  *)
(* any amount, not necessarily the one it reported before; any request may *)
(* reject.                                                                 *)
(***************************************************************************)
EXTENDS Naturals, Integers, Sequences, FiniteSets

\* ---------------------------------------------------------------- bounds
MaxStock == 3
MaxAmount == 1
MaxOps == 2
MaxLoaded == 2

\* the product ids the operations are called with; the code only compares ids
Products == {1, 2}
\* the amounts GET stock/{id} may report; the code takes whatever number comes
StockLevels == -1..MaxStock

\* the quantities of stored entries and the amounts updateProductAmount is
\* called with: negative, zero and positive
Amounts == -1..MaxAmount

\* -------------------------------------------------------------- messages
MsgAdd == "Erro na adição do produto"
MsgRemove == "Erro na remoção do produto"
MsgUpdate == "Erro na alteração de quantidade do produto"
MsgOutOfStock == "Quantidade solicitada fora de estoque"

\* productFound === undefined
Undefined == 0

\* no response of GET stock/{id} seen (yet)
NotAsked == -2

VARIABLES
    heap,       \* the Product objects ever created: reference -> [id, amount]
    cart,       \* the React state: an array (sequence) of references
    renders,    \* the `cart` arrays of the renders so far; each render's functions close over its array
    storage,    \* localStorage['@RocketShoes:cart']: absent, unreadable, not an array, or serialized cart
    ops,        \* one record per invoked operation, in invocation order
    mounted,    \* FALSE when the state initializer threw
    isArray,    \* FALSE when the state was initialized with a decoded value that is not an array
    loaded      \* the cart the provider started with (as values)

vars == <<heap, cart, renders, storage, ops, mounted, isArray, loaded>>

\* ------------------------------------------------------------- helpers
Item(id, amount) == [id |-> id, amount |-> amount]

\* the values an array of references shows under heap h
Values(h, arr) == [i \in DOMAIN arr |-> h[arr[i]]]

\* JSON.stringify(cart): the text holds the values, not the references
Stringify(h, arr) == [state |-> "json", text |-> Values(h, arr)]

\* localStorage.getItem returned null / a text JSON.parse throws on / a text
\* that decodes to something without `find` (null, an object)
NoItem == [state |-> "absent", text |-> <<>>]
Unreadable == [state |-> "unreadable", text |-> <<>>]
NotAnArray == [state |-> "other", text |-> <<>>]

\* JSON.parse(text) allocates one fresh object per element, after heap h
ParsedHeap(h, item) == h \o item.text
ParsedCart(h, item) == [i \in DOMAIN item.text |-> Len(h) + i]

\* the useState initializer of lines 25-33 run on a stored item: whether it
\* returns at all, whether what it returns is an array, and the array
Initializer(item) ==
    [mounted |-> item.state # "unreadable",
     isArray |-> item.state \in {"absent", "json"},
     heap |-> IF item.state = "json" THEN ParsedHeap(<<>>, item) ELSE <<>>,
     cart |-> IF item.state = "json" THEN ParsedCart(<<>>, item) ELSE <<>>]

\* cart.find((item) => item.id === productId): first match, or undefined
Find(h, arr, productId) ==
    LET hits == {i \in DOMAIN arr : h[arr[i]].id = productId}
    IN  IF hits = {} THEN Undefined
        ELSE arr[CHOOSE i \in hits : \A j \in hits : i <= j]

\* cart.filter((item) => item.id !== productId): same objects, same order
RECURSIVE Filter(_, _, _)
Filter(h, arr, productId) ==
    IF arr = <<>> THEN <<>>
    ELSE IF h[Head(arr)].id # productId
         THEN <<Head(arr)>> \o Filter(h, Tail(arr), productId)
         ELSE Filter(h, Tail(arr), productId)

NoDuplicates(vals) ==
    \A i, j \in DOMAIN vals : vals[i].id = vals[j].id => i = j

\* the serialized arrays a previous session, or anyone else, may have left in
\* localStorage: any entries, ids may repeat
RECURSIVE StoredCartsOfLen(_)
StoredCartsOfLen(n) ==
    IF n = 0 THEN {<<>>}
    ELSE {Append(s, Item(p, a)) :
            s \in StoredCartsOfLen(n - 1), p \in Products, a \in Amounts}

StoredCarts ==
    {[state |-> "json", text |-> s] :
        s \in UNION {StoredCartsOfLen(n) : n \in 0..MaxLoaded}}

\* ------------------------------------------------- decisions of the code
\* mutant: the helper for a product already in the cart is never resumed
AddBranch_NeverResumed(found) ==
    IF found = Undefined THEN "products" ELSE "idle"

\* mutant: the product is never looked up before it is added
AddBranch_NoLookup(found) == "products"

\* addProduct, lines 39-44: which helper handles the product
AddBranch(found) ==
    IF found = Undefined THEN "products" ELSE "stockExisting"

\* mutant: a stock of zero is not rejected
NewProductRejected_Negative(stockAmount) == stockAmount < 0

\* handleAddNewProduct, line 105
NewProductRejected(stockAmount) == stockAmount = 0

\* handleAddNewProduct, lines 110-116: [...cart, {...data, amount: 1}]
NewProductItem(dataId) == Item(dataId, 1)

\* mutant: the increment is never checked against the stock
ExistingProductRejected_NoCheck(foundAmount, stockAmount) == FALSE

\* handleUpdateAmountOnExistingProduct, line 124
ExistingProductRejected(foundAmount, stockAmount) == foundAmount + 1 > stockAmount

\* mutant: an amount of zero is accepted
UpdateInvalid_ZeroAllowed(h, found, amount) ==
    amount < 0 \/ found = Undefined \/ h[found].amount <= 0

\* updateProductAmount, line 76
UpdateInvalid(h, found, amount) ==
    amount <= 0 \/ found = Undefined \/ h[found].amount <= 0

\* mutant: the comparison is the wrong way round
UpdateRejected_Inverted(foundAmount, amount, stockAmount) == foundAmount + amount < stockAmount

\* updateProductAmount, line 83
UpdateRejected(foundAmount, amount, stockAmount) == foundAmount + amount > stockAmount

\* handleAddNewProduct, lines 110-113: [...cart, {...data, amount: 1}] keeps the
\* existing objects in their order and puts the new one last
AppendedCart(arr, ref) == Append(arr, ref)

\* updateProductAmount, lines 88-90: every item is copied, the match gets `amount`
UpdatedItems(h, arr, foundId, amount) ==
    [k \in DOMAIN arr |->
        IF h[arr[k]].id = foundId THEN [h[arr[k]] EXCEPT !.amount = amount]
        ELSE h[arr[k]]]

\* handleUpdateAmountOnExistingProduct, lines 130-132: `++item.amount` writes the
\* matching object of the captured array and the copy takes the new value;
\* the other items are reused as they are
IncrementedHeap(h, arr, foundId) ==
    LET hit == {arr[k] : k \in {j \in DOMAIN arr : h[arr[j]].id = foundId}}
        old == [r \in DOMAIN h |->
                  IF r \in hit THEN [h[r] EXCEPT !.amount = @ + 1] ELSE h[r]]
        idx == {k \in DOMAIN arr : h[arr[k]].id = foundId}
        nth(n) == CHOOSE k \in idx : Cardinality({j \in idx : j <= k}) = n
    IN  old \o [n \in 1..Cardinality(idx) |-> old[arr[nth(n)]]]

IncrementedCart(h, arr, foundId) ==
    LET idx == {k \in DOMAIN arr : h[arr[k]].id = foundId}
    IN  [k \in DOMAIN arr |->
           IF k \in idx THEN Len(h) + Cardinality({j \in idx : j <= k})
           ELSE arr[k]]

\* mutant: the unfiltered cart is set and persisted
RemoveResult_StaleCart(h, arr, productId) ==
    IF Find(h, arr, productId) = Undefined
    THEN [write |-> FALSE, cart |-> arr, toasts |-> <<MsgRemove>>]
    ELSE [write |-> TRUE, cart |-> arr, toasts |-> <<>>]

\* removeProduct, lines 53-63
RemoveResult(h, arr, productId) ==
    IF Find(h, arr, productId) = Undefined
    THEN [write |-> FALSE, cart |-> arr, toasts |-> <<MsgRemove>>]
    ELSE [write |-> TRUE, cart |-> Filter(h, arr, productId), toasts |-> <<>>]

\* addProduct, lines 46-48: what the catch block reports
addProductCatch == MsgAdd

\* removeProduct, lines 64-66: what the catch block reports
removeProductCatch == MsgRemove

\* mutant: the catch block copied from addProduct keeps its message
updateProductAmountCatch_Copied == MsgAdd

\* updateProductAmount, lines 95-97: what the catch block reports
updateProductAmountCatch == MsgUpdate

\* the catch block an exception inside an operation of this kind lands in
Catch(kind) ==
    CASE kind = "add" -> addProductCatch
      [] kind = "remove" -> removeProductCatch
      [] OTHER -> updateProductAmountCatch

\* persistCartOnLocalStorage, lines 139-141: the stored item after the call;
\* when setItem throws (quota exceeded, storage disabled) the item is left
\* as it was and the exception reaches the caller's catch block
persistCartOnLocalStorage(h, arr, item, writable) ==
    IF writable THEN Stringify(h, arr) ELSE item

Request(url, id) == [url |-> url, id |-> id]

\* ------------------------------------------------------------- state
\* what the user can observe: the cart's entries and the persisted snapshot
Observed(h, arr, item) == [cart |-> Values(h, arr), storage |-> item]

\* the operations that have set the cart
Committed == {i \in DOMAIN ops : ops[i].commits > 0}

\* the record of an operation at its invocation through the functions of the
\* render whose `cart` is arr: its arguments, the captured array (snap),
\* whether that render is the latest one, its position (pc), and what it has
\* done so far; invokedOn and closureOn keep what the state and the captured
\* array showed at the invocation; before and after the observable state right
\* before and after the step in which the operation set the cart or ended
\* without setting it; returnedOn what the cart showed when it returned;
\* started is the number of operations that had returned when it was invoked,
\* finished its rank among the returned operations (0 until it returns); commits
\* counts its setCart calls, wrote is its rank among the operations that set
\* the cart, wroteAfter the number of operations invoked by then (both 0 when it
\* has not), and threw tells that its setItem threw
NewOp(kind, productId, amount, arr, found, pc, toasts, requests) ==
    [kind |-> kind, productId |-> productId, amount |-> amount,
     snap |-> arr, latest |-> (arr = cart), productFound |-> found, pc |-> pc,
     toasts |-> toasts, requests |-> requests, stockSeen |-> NotAsked,
     commits |-> 0, wrote |-> 0, wroteAfter |-> 0, threw |-> FALSE,
     alone |-> (\A i \in DOMAIN ops : ops[i].pc = "done"),
     started |-> Cardinality({i \in DOMAIN ops : ops[i].pc = "done"}),
     finished |-> IF pc = "done"
                  THEN Cardinality({i \in DOMAIN ops : ops[i].pc = "done"}) + 1
                  ELSE 0,
     invokedOn |-> Values(heap, cart),
     closureOn |-> Values(heap, arr),
     before |-> Observed(heap, cart, storage),
     after |-> Observed(heap, cart, storage),
     returnedOn |-> IF pc = "done" THEN Values(heap, cart) ELSE <<>>]

InFlight == {i \in DOMAIN ops : ops[i].pc # "done"}

\* mutant: the operation reads the latest state when it resumes
Closure_Latest(i) == cart

\* the `cart` the closures of operation i read: the state of the render in
\* which the called function was created
Closure(i) == ops[i].snap

\* an invocation overlaps every operation that has not returned yet
Overlapped == [i \in DOMAIN ops |->
                 IF i \in InFlight THEN [ops[i] EXCEPT !.alone = FALSE] ELSE ops[i]]

\* where operation i stands when the function running in it has ended:
\* updateProductAmount has returned; addProduct awaits its helper (lines 40,
\* 44) and resumes in a later microtask, after `await` when the helper
\* returned and in its catch block when the helper threw
Awaited(i, thrown) ==
    IF ops[i].kind = "add" THEN (IF thrown THEN "catch" ELSE "return") ELSE "done"

\* the rank of an operation that returns in this step (0 when it does not)
Finished(pc) == IF pc = "done" THEN Cardinality(DOMAIN ops \ InFlight) + 1 ELSE 0

\* what the cart shows to an operation that returns in this step
ReturnedOn(pc, h, arr) == IF pc = "done" THEN Values(h, arr) ELSE <<>>

\* showToastError(message); return inside the function running in operation i
Fail(i, message, seen) ==
    LET pc == Awaited(i, FALSE)
    IN  /\ ops' = [ops EXCEPT ![i].toasts = Append(@, message),
                              ![i].stockSeen = seen,
                              ![i].pc = pc,
                              ![i].finished = Finished(pc),
                              ![i].before = Observed(heap, cart, storage),
                              ![i].after = Observed(heap, cart, storage),
                              ![i].returnedOn = ReturnedOn(pc, heap, cart)]
        /\ UNCHANGED <<heap, cart, renders, storage>>

\* the request operation i awaits rejects: updateProductAmount is in its try
\* block and its catch block reports at once (lines 95-97); a helper of
\* addProduct has no try block, its promise rejects and the catch block of
\* addProduct runs when addProduct resumes
Throw(i) ==
    LET pc == Awaited(i, TRUE)
    IN  /\ ops' = [ops EXCEPT ![i].toasts = IF pc = "done"
                                            THEN Append(@, Catch(ops[i].kind))
                                            ELSE @,
                              ![i].pc = pc,
                              ![i].finished = Finished(pc),
                              ![i].before = Observed(heap, cart, storage),
                              ![i].after = Observed(heap, cart, storage),
                              ![i].returnedOn = ReturnedOn(pc, heap, cart)]
        /\ UNCHANGED <<heap, cart, renders, storage>>

\* mutant: the captured `cart`, not updatedCart, is persisted
Commit_StaleCart(i, h, updatedCart, seen, writable) ==
    LET item == persistCartOnLocalStorage(h, ops[i].snap, storage, writable)
        pc == Awaited(i, ~writable)
    IN  /\ heap' = h
        /\ cart' = updatedCart
        /\ renders' = renders \cup {updatedCart}
        /\ storage' = item
        /\ ops' = [ops EXCEPT ![i].commits = @ + 1,
                              ![i].wrote = Cardinality(Committed) + 1,
                              ![i].wroteAfter = Len(ops),
                              ![i].threw = ~writable,
                              ![i].toasts = IF ~writable /\ pc = "done"
                                            THEN Append(@, Catch(ops[i].kind))
                                            ELSE @,
                              ![i].stockSeen = seen,
                              ![i].pc = pc,
                              ![i].finished = Finished(pc),
                              ![i].before = Observed(heap, cart, storage),
                              ![i].after = Observed(h, updatedCart, item),
                              ![i].returnedOn = ReturnedOn(pc, h, updatedCart)]

\* setCart(updatedCart); persistCartOnLocalStorage(updatedCart) inside
\* operation i: the state is set first, so when setItem throws the cart has
\* changed and the stored item has not; the exception reaches the catch block
\* of updateProductAmount at once, and that of addProduct when it resumes
Commit(i, h, updatedCart, seen, writable) ==
    LET item == persistCartOnLocalStorage(h, updatedCart, storage, writable)
        pc == Awaited(i, ~writable)
    IN  /\ heap' = h
        /\ cart' = updatedCart
        /\ renders' = renders \cup {updatedCart}
        /\ storage' = item
        /\ ops' = [ops EXCEPT ![i].commits = @ + 1,
                              ![i].wrote = Cardinality(Committed) + 1,
                              ![i].wroteAfter = Len(ops),
                              ![i].threw = ~writable,
                              ![i].toasts = IF ~writable /\ pc = "done"
                                            THEN Append(@, Catch(ops[i].kind))
                                            ELSE @,
                              ![i].stockSeen = seen,
                              ![i].pc = pc,
                              ![i].finished = Finished(pc),
                              ![i].before = Observed(heap, cart, storage),
                              ![i].after = Observed(h, updatedCart, item),
                              ![i].returnedOn = ReturnedOn(pc, h, updatedCart)]

\* useState initializer of CartProvider, lines 25-33
Init ==
    /\ storage \in {NoItem, Unreadable, NotAnArray} \cup StoredCarts
    /\ ops = <<>>
    /\ mounted = Initializer(storage).mounted
    /\ isArray = Initializer(storage).isArray
    /\ heap = Initializer(storage).heap
    /\ cart = Initializer(storage).cart
    /\ renders = {cart}
    /\ loaded = Values(heap, cart)

\* addProduct, called through the render whose `cart` is arr, up to its first
\* await: lines 35-44, then line 101 or line 123; on a `cart` that is not an
\* array `cart.find` throws into the catch of line 46
addProduct(arr, productId) ==
    /\ mounted
    /\ Len(ops) < MaxOps
    /\ arr \in renders
    /\ IF ~isArray
       THEN ops' = Append(Overlapped,
                     NewOp("add", productId, 0, arr, Undefined, "done",
                           <<addProductCatch>>, <<>>))
       ELSE LET found == Find(heap, arr, productId)
                branch == AddBranch(found)
                url == IF branch = "products" THEN "products" ELSE "stock"
                id == IF branch = "products" THEN productId ELSE heap[found].id
            IN  ops' = Append(Overlapped,
                         NewOp("add", productId, 0, arr, found, branch, <<>>,
                               <<Request(url, id)>>))
    /\ UNCHANGED <<heap, cart, renders, storage, mounted, isArray, loaded>>

\* handleAddNewProduct when GET products/{id} settles: lines 101-103
handleAddNewProductData(i, resolved) ==
    /\ ops[i].pc = "products"
    /\ IF resolved
       THEN /\ ops' = [ops EXCEPT ![i].pc = "stockNew",
                                  ![i].requests = Append(@, Request("stock", ops[i].productId))]
            /\ UNCHANGED <<heap, cart, renders, storage>>
       ELSE Throw(i)
    /\ UNCHANGED <<mounted, isArray, loaded>>

\* handleAddNewProduct when GET stock/{id} settles: lines 103-119
handleAddNewProduct(i, resolved, writable) ==
    /\ ops[i].pc = "stockNew"
    /\ IF ~resolved THEN Throw(i)
       ELSE \E s \in StockLevels :
              IF NewProductRejected(s) THEN Fail(i, MsgOutOfStock, s)
              ELSE Commit(i, Append(heap, NewProductItem(ops[i].productId)),
                          AppendedCart(Closure(i), Len(heap) + 1), s, writable)
    /\ UNCHANGED <<mounted, isArray, loaded>>

\* handleUpdateAmountOnExistingProduct when GET stock/{id} settles: lines 123-136
handleUpdateAmountOnExistingProduct(i, resolved, writable) ==
    /\ ops[i].pc = "stockExisting"
    /\ LET found == heap[ops[i].productFound]
       IN  IF ~resolved THEN Throw(i)
           ELSE \E s \in StockLevels :
                  IF ExistingProductRejected(found.amount, s)
                  THEN Fail(i, MsgOutOfStock, s)
                  ELSE Commit(i, IncrementedHeap(heap, Closure(i), found.id),
                              IncrementedCart(heap, Closure(i), found.id), s, writable)
    /\ UNCHANGED <<mounted, isArray, loaded>>

\* addProduct resumed from `await handleAddNewProduct(productId)` or `await
\* handleUpdateAmountOnExistingProduct(productFound)`: it returns (lines 40-44)
\* or, when the helper threw, its catch block reports (lines 46-48)
addProductAwaited(i) ==
    /\ ops[i].pc \in {"return", "catch"}
    /\ ops' = [ops EXCEPT ![i].toasts = IF ops[i].pc = "catch"
                                        THEN Append(@, addProductCatch)
                                        ELSE @,
                          ![i].pc = "done",
                          ![i].finished = Finished("done"),
                          ![i].returnedOn = Values(heap, cart)]
    /\ UNCHANGED <<heap, cart, renders, storage, mounted, isArray, loaded>>

\* removeProduct, called through the render whose `cart` is arr: lines 51-67,
\* synchronous
removeProduct(arr, productId, writable) ==
    /\ mounted
    /\ Len(ops) < MaxOps
    /\ arr \in renders
    /\ IF ~isArray
       THEN /\ ops' = Append(Overlapped,
                        NewOp("remove", productId, 0, arr, Undefined, "done",
                              <<removeProductCatch>>, <<>>))
            /\ UNCHANGED <<cart, renders, storage>>
       ELSE LET r == RemoveResult(heap, arr, productId)
                op == NewOp("remove", productId, 0, arr, Find(heap, arr, productId),
                            "done", r.toasts, <<>>)
                item == persistCartOnLocalStorage(heap, r.cart, storage, writable)
            IN  IF r.write
                THEN /\ cart' = r.cart
                     /\ renders' = renders \cup {r.cart}
                     /\ storage' = item
                     /\ ops' = Append(Overlapped,
                                 [op EXCEPT !.commits = 1,
                                            !.wrote = Cardinality(Committed) + 1,
                                            !.wroteAfter = Len(ops) + 1,
                                            !.threw = ~writable,
                                            !.toasts = IF writable THEN @
                                                       ELSE Append(@, removeProductCatch),
                                            !.after = Observed(heap, r.cart, item),
                                            !.returnedOn = Values(heap, r.cart)])
                ELSE /\ ops' = Append(Overlapped, op)
                     /\ UNCHANGED <<cart, renders, storage>>
    /\ UNCHANGED <<heap, mounted, isArray, loaded>>

\* updateProductAmount, called through the render whose `cart` is arr, up to
\* its await: lines 69-81
updateProductAmount(arr, productId, amount) ==
    /\ mounted
    /\ Len(ops) < MaxOps
    /\ arr \in renders
    /\ IF ~isArray
       THEN ops' = Append(Overlapped,
                     NewOp("update", productId, amount, arr, Undefined, "done",
                           <<updateProductAmountCatch>>, <<>>))
       ELSE LET found == Find(heap, arr, productId)
            IN  ops' = Append(Overlapped,
                         IF UpdateInvalid(heap, found, amount)
                         THEN NewOp("update", productId, amount, arr, found, "done",
                                    <<MsgUpdate>>, <<>>)
                         ELSE NewOp("update", productId, amount, arr, found,
                                    "stockUpdate", <<>>, <<Request("stock", productId)>>))
    /\ UNCHANGED <<heap, cart, renders, storage, mounted, isArray, loaded>>

\* updateProductAmount when GET stock/{id} settles: lines 81-97
updateProductAmountStock(i, resolved, writable) ==
    /\ ops[i].pc = "stockUpdate"
    /\ LET found == heap[ops[i].productFound]
           items == UpdatedItems(heap, Closure(i), found.id, ops[i].amount)
       IN  IF ~resolved THEN Throw(i)
           ELSE \E s \in StockLevels :
                  IF UpdateRejected(found.amount, ops[i].amount, s)
                  THEN Fail(i, MsgOutOfStock, s)
                  ELSE Commit(i, heap \o items,
                              [k \in DOMAIN items |-> Len(heap) + k], s, writable)
    /\ UNCHANGED <<mounted, isArray, loaded>>

Next ==
    \/ \E arr \in renders, p \in Products : addProduct(arr, p)
    \/ \E i \in DOMAIN ops, ok \in BOOLEAN : handleAddNewProductData(i, ok)
    \/ \E i \in DOMAIN ops, ok, w \in BOOLEAN : handleAddNewProduct(i, ok, w)
    \/ \E i \in DOMAIN ops, ok, w \in BOOLEAN :
          handleUpdateAmountOnExistingProduct(i, ok, w)
    \/ \E i \in DOMAIN ops : addProductAwaited(i)
    \/ \E arr \in renders, p \in Products, w \in BOOLEAN : removeProduct(arr, p, w)
    \/ \E arr \in renders, p \in Products, a \in Amounts :
          updateProductAmount(arr, p, a)
    \/ \E i \in DOMAIN ops, ok, w \in BOOLEAN : updateProductAmountStock(i, ok, w)

Spec == Init /\ [][Next]_vars

\* a pending request of operation i settles: it resolves or it rejects
Settle(i) ==
    /\ i \in DOMAIN ops
    /\ \E ok, w \in BOOLEAN :
          \/ handleAddNewProductData(i, ok)
          \/ handleAddNewProduct(i, ok, w)
          \/ handleUpdateAmountOnExistingProduct(i, ok, w)
          \/ updateProductAmountStock(i, ok, w)

\* addProduct, awaiting a helper that has ended, resumes
Resume(i) == i \in DOMAIN ops /\ addProductAwaited(i)

\* every pending request eventually resolves or rejects, and the microtask
\* queue is drained
FairSpec ==
    Spec /\ \A i \in 1..MaxOps : WF_vars(Settle(i)) /\ WF_vars(Resume(i))

TypeOK ==
    /\ cart \in Seq(DOMAIN heap)
    /\ cart \in renders
    /\ isArray \in BOOLEAN /\ mounted \in BOOLEAN
    /\ \A i \in DOMAIN ops :
          /\ ops[i].pc \in {"products", "stockNew", "stockExisting", "stockUpdate",
                           "return", "catch", "done"}
          /\ ops[i].pc \in {"return", "catch"} => ops[i].kind = "add"
          /\ ops[i].snap \in renders

\* ------------------------------------------------------------ properties
CartValues == Values(heap, cart)

\* the quantity of the first entry of productId, the one `find` returns
Quantity(vals, productId) ==
    LET hits == {j \in DOMAIN vals : vals[j].id = productId}
        k == CHOOSE j \in hits : \A m \in hits : j <= m
    IN  vals[k].amount

InCart(vals, productId) == \E k \in DOMAIN vals : vals[k].id = productId

\* the operations of a kind that have returned
Returned(kind) == {i \in DOMAIN ops : ops[i].kind = kind /\ ops[i].pc = "done"}

\* the returned operations of a kind whose GET stock/{id} resolved
Answered(kind) == {i \in Returned(kind) : ops[i].stockSeen # NotAsked}

\* operation i wrote neither the cart nor the persisted snapshot
NothingWritten(i) == ops[i].commits = 0 /\ ops[i].after = ops[i].before

\* operation i was called through the functions of the latest render, so the
\* `cart` it works on was the current state when it was invoked
Latest(i) == ops[i].latest

\* the entries vals with the quantity of productId set to amount
SetQuantity(vals, productId, amount) ==
    [k \in DOMAIN vals |->
        IF vals[k].id = productId THEN Item(productId, amount) ELSE vals[k]]

\* the entries vals with the quantity of every entry of productId one higher
Incremented(vals, productId) ==
    [k \in DOMAIN vals |->
        IF vals[k].id = productId THEN Item(productId, vals[k].amount + 1)
        ELSE vals[k]]

\* the entries vals without those of productId
Without(vals, productId) ==
    LET Keep(e) == e.id # productId IN SelectSeq(vals, Keep)

\* C1: updateProductAmount called through the latest render with no other
\* operation in flight, for a product in the cart with quantity >= 1 and
\* 1 <= amount <= stock, sets that entry's quantity to exactly amount and,
\* when the snapshot can be written, emits no notification.
C1_SetsAmountWithinStock ==
    \A i \in Answered("update") :
        (/\ ops[i].alone /\ Latest(i)
         /\ InCart(ops[i].invokedOn, ops[i].productId)
         /\ Quantity(ops[i].invokedOn, ops[i].productId) >= 1
         /\ 1 <= ops[i].amount
         /\ ops[i].amount <= ops[i].stockSeen)
        => /\ InCart(ops[i].after.cart, ops[i].productId)
           /\ Quantity(ops[i].after.cart, ops[i].productId) = ops[i].amount
           /\ ~ops[i].threw => ops[i].toasts = <<>>

\* C2: updateProductAmount for a product in the cart, told a stock below the
\* requested amount, writes neither the cart nor the persisted snapshot and
\* emits the out-of-stock notification. (The stock is asked for only once the
\* request passed the check of C8.)
C2_OverStockRejected ==
    \A i \in Answered("update") :
        (InCart(ops[i].invokedOn, ops[i].productId) /\ ops[i].amount > ops[i].stockSeen)
        => NothingWritten(i) /\ ops[i].toasts = <<MsgOutOfStock>>

C2_Witness ==
    \E i \in Answered("update") :
        /\ InCart(ops[i].invokedOn, ops[i].productId)
        /\ ops[i].amount > ops[i].stockSeen
        /\ ops[i].toasts = <<MsgOutOfStock>>
        /\ ops[i].after.cart = ops[i].invokedOn

\* C3: addProduct with no other operation in flight, for a product not in the
\* cart whose stock is > 0, yields the previous cart with one entry of
\* quantity 1 for the product appended at the end, and no notification.
C3_AddsNewEntry ==
    \A i \in Answered("add") :
        (/\ ops[i].alone
         /\ ~InCart(ops[i].invokedOn, ops[i].productId)
         /\ ops[i].stockSeen > 0)
        => /\ ops[i].after.cart = Append(ops[i].invokedOn, Item(ops[i].productId, 1))
           /\ ops[i].toasts = <<>>

\* C4: addProduct with no other operation in flight, for a product in the cart
\* with quantity q: when q + 1 <= stock the entry's quantity becomes q + 1,
\* otherwise the cart is unchanged and the out-of-stock notification fires.
C4_IncrementsExisting ==
    \A i \in Answered("add") :
        (ops[i].alone /\ InCart(ops[i].invokedOn, ops[i].productId))
        => LET q == Quantity(ops[i].invokedOn, ops[i].productId)
           IN  IF q + 1 <= ops[i].stockSeen
               THEN /\ InCart(ops[i].after.cart, ops[i].productId)
                    /\ Quantity(ops[i].after.cart, ops[i].productId) = q + 1
               ELSE /\ ops[i].after.cart = ops[i].invokedOn
                    /\ ops[i].toasts = <<MsgOutOfStock>>

\* C5: addProduct told a stock of 0 writes neither the cart nor the persisted
\* snapshot and emits the out-of-stock notification, whether the product was
\* absent from the cart or already present.
C5_AsClaimed ==
    \A i \in Answered("add") :
        ops[i].stockSeen = 0
        => NothingWritten(i) /\ ops[i].toasts = <<MsgOutOfStock>>

\* C5 as amended: addProduct told a stock of 0 writes neither the cart nor the
\* persisted snapshot and emits the out-of-stock notification when the cart it
\* works on has no entry of the product or records a quantity >= 0 for it.
C5_ZeroStockRejected ==
    \A i \in Answered("add") :
        (/\ ops[i].stockSeen = 0
         /\ InCart(ops[i].closureOn, ops[i].productId)
               => Quantity(ops[i].closureOn, ops[i].productId) >= 0)
        => NothingWritten(i) /\ ops[i].toasts = <<MsgOutOfStock>>

C5_Witness ==
    \E i, j \in Answered("add") :
        /\ ops[i].stockSeen = 0 /\ ops[j].stockSeen = 0
        /\ ~InCart(ops[i].invokedOn, ops[i].productId)
        /\ InCart(ops[j].invokedOn, ops[j].productId)
        /\ Quantity(ops[j].closureOn, ops[j].productId) >= 0
        /\ ops[i].toasts = <<MsgOutOfStock>> /\ ops[j].toasts = <<MsgOutOfStock>>

\* C6: removeProduct for a product present in the cart yields the previous
\* cart with that entry taken out: the other entries keep their quantities
\* and their order.
C6_RemovesThatEntry ==
    \A i \in Returned("remove") :
        InCart(ops[i].invokedOn, ops[i].productId)
        => ops[i].after.cart = Without(ops[i].invokedOn, ops[i].productId)

\* C7: removeProduct for a product absent from the cart writes neither the cart
\* nor the persisted snapshot and emits the removal-error notification.
C7_RemoveAbsentRejected ==
    \A i \in Returned("remove") :
        ~InCart(ops[i].invokedOn, ops[i].productId)
        => NothingWritten(i) /\ ops[i].toasts = <<MsgRemove>>

\* the outcome of a rejected updateProductAmount: nothing written, the
\* quantity-change notification, no stock request
UpdateRefused(i) ==
    /\ ops[i].pc = "done"
    /\ NothingWritten(i)
    /\ ops[i].after.cart = ops[i].invokedOn
    /\ ops[i].toasts = <<MsgUpdate>>
    /\ ops[i].requests = <<>>

\* C8: updateProductAmount with amount <= 0, or for a product absent from the
\* cart, or for a product whose recorded quantity is <= 0, writes neither the
\* cart nor the persisted snapshot, emits the quantity-change notification and
\* issues no stock request.
C8_InvalidUpdateRejected ==
    \A i \in DOMAIN ops :
        (/\ ops[i].kind = "update"
         /\ \/ ops[i].amount <= 0
            \/ ~InCart(ops[i].invokedOn, ops[i].productId)
            \/ Quantity(ops[i].invokedOn, ops[i].productId) <= 0)
        => UpdateRefused(i)

\* C9: when the provider started with an empty cart or with a loaded cart whose
\* quantities are all >= 1, every entry of the in-memory cart has quantity >= 1.
C9_QuantitiesPositive ==
    (\A k \in DOMAIN loaded : loaded[k].amount >= 1)
        => \A k \in DOMAIN cart : heap[cart[k]].amount >= 1

C9_Witness ==
    /\ \A k \in DOMAIN loaded : loaded[k].amount >= 1
    /\ \E i \in Returned("update"), j \in Returned("add") :
        /\ ~ops[i].alone /\ ~ops[j].alone
        /\ ops[i].commits = 1 /\ ops[j].commits = 1
        /\ ops[i].productId = ops[j].productId
    /\ cart # <<>>

\* C10: started from a cart with no duplicate ids, the cart never holds two
\* entries with the same product id, also when operations overlap.
C10_NoDuplicateIds ==
    NoDuplicates(loaded) => NoDuplicates(CartValues)

C10_Witness ==
    /\ NoDuplicates(loaded)
    /\ \E i, j \in Returned("add") :
        /\ i # j
        /\ ops[i].productId = ops[j].productId
        /\ ops[i].productFound = Undefined /\ ops[j].productFound = Undefined
        /\ ops[i].commits = 1 /\ ops[j].commits = 1
        /\ InCart(CartValues, ops[i].productId)

\* what a new provider would start with from a stored item: whether its
\* initializer returns, whether it returns an array, and the entries
Reloaded(item) ==
    LET r == Initializer(item)
    IN  [mounted |-> r.mounted, isArray |-> r.isArray, cart |-> Values(r.heap, r.cart)]

\* operation i completed successfully: it set the cart once, wrote the
\* snapshot and reported nothing
Succeeded(i) ==
    /\ ops[i].pc = "done"
    /\ ops[i].commits = 1
    /\ ops[i].toasts = <<>>

\* operation i set the cart and wrote the snapshot
Written(i) == ops[i].commits = 1 /\ ~ops[i].threw

\* no operation has set the cart since operation i did
LastToSet(i) == \A j \in Committed : ops[j].wrote <= ops[i].wrote

\* C11: right after every successful mutation, and from then on until another
\* operation sets the cart, under any interleaving the persisted snapshot is the
\* serialization of the in-memory cart, and a provider initialized from it
\* starts with a cart equal to the in-memory cart.
C11_SnapshotMirrorsCart ==
    \A i \in DOMAIN ops :
        Written(i) =>
            /\ ops[i].after.storage = [state |-> "json", text |-> ops[i].after.cart]
            /\ Reloaded(ops[i].after.storage) =
                  [mounted |-> TRUE, isArray |-> TRUE, cart |-> ops[i].after.cart]
            /\ LastToSet(i) =>
                  /\ storage = Stringify(heap, cart)
                  /\ Reloaded(storage) =
                        [mounted |-> TRUE, isArray |-> TRUE, cart |-> CartValues]

C11_Witness ==
    /\ \E i, j \in DOMAIN ops :
          /\ i # j
          /\ ~ops[i].alone /\ ~ops[j].alone
          /\ Succeeded(i) /\ Succeeded(j)
          /\ ops[i].kind = "add" /\ ops[i].productFound # Undefined
    /\ cart # <<>>
    /\ storage = Stringify(heap, cart)

\* C12: on creation the provider starts with the persisted cart when one exists
\* and is readable, and with an empty cart when no value is persisted or the
\* persisted value cannot be decoded; creation never fails.
C12_CreationNeverFails ==
    ops = <<>>
        => /\ mounted
           /\ storage.state = "json" => isArray /\ CartValues = storage.text
           /\ storage.state \in {"absent", "unreadable"} => isArray /\ cart = <<>>

\* the operations that returned because one of their requests was rejected
Rejected ==
    {i \in DOMAIN ops :
        ops[i].pc = "done" /\ ops[i].requests # <<>> /\ ops[i].stockSeen = NotAsked}

\* C13: when a request of addProduct or updateProductAmount rejects, the
\* operation returns, writes neither the cart nor the persisted snapshot, and
\* emits the generic notification of that operation.
C13_RejectionAbsorbed ==
    \A i \in Rejected :
        /\ NothingWritten(i)
        /\ ops[i].toasts = <<IF ops[i].kind = "add" THEN MsgAdd ELSE MsgUpdate>>

C13_Witness ==
    \E i, j \in Rejected :
        /\ ops[i].kind = "add" /\ Len(ops[i].requests) = 2
        /\ ops[j].kind = "update"
        /\ ops[i].toasts = <<MsgAdd>> /\ ops[j].toasts = <<MsgUpdate>>
        /\ ops[i].commits = 0 /\ ops[j].commits = 0

\* the cart operation i is expected to publish when nothing else happens
\* between its invocation and its return: its change applied to the cart its
\* closure captured
OnItsOwn(i) ==
    LET v == ops[i].closureOn
        p == ops[i].productId
    IN  CASE ops[i].kind = "remove" -> Without(v, p)
          [] ops[i].kind = "update" -> SetQuantity(v, p, ops[i].amount)
          [] ops[i].kind = "add" /\ InCart(v, p) -> Incremented(v, p)
          [] OTHER -> Append(v, Item(p, 1))

\* operation i was invoked before operation j returned, and j before i returned
Overlap(i, j) ==
    /\ ops[i].finished > ops[j].started
    /\ ops[j].finished > ops[i].started

\* an increment was committed while operation j awaited the network (its
\* `++item.amount` writes an object j's captured array may share)
IncrementDuring(j) ==
    \E k \in Committed :
        /\ k # j
        /\ ops[k].kind = "add"
        /\ ops[k].productFound # Undefined
        /\ ops[k].wroteAfter >= j
        /\ ops[k].wrote < ops[j].wrote

\* operations i and j on the same product overlapped, worked on the same
\* captured cart and both set the cart, j last
RacingPair(i, j) ==
    /\ i # j
    /\ ops[i].pc = "done" /\ ops[j].pc = "done"
    /\ ops[i].productId = ops[j].productId
    /\ ops[i].snap = ops[j].snap
    /\ Overlap(i, j)
    /\ ops[i].commits = 1 /\ ops[j].commits = 1
    /\ ops[i].wrote < ops[j].wrote

\* C14: a lost update: when two operations on the same product overlap on the
\* same captured cart and both set the cart, the cart the later one sets is what
\* it would have set on its own; the change of the earlier one is overwritten.
\* (Not so when an increment falls into the later one's wait: the increment
\* writes the shared object, so the later operation sees it.)
C14_LastWriterWins ==
    \A i, j \in DOMAIN ops :
        (RacingPair(i, j) /\ ~IncrementDuring(j)) => ops[j].after.cart = OnItsOwn(j)

C14_Witness ==
    \E i, j \in DOMAIN ops :
        /\ RacingPair(i, j)
        /\ Succeeded(i) /\ Succeeded(j)
        /\ ops[i].kind = "remove" /\ ops[j].kind = "add"
        /\ CartValues = OnItsOwn(j)
        /\ InCart(CartValues, ops[i].productId)

\* C15: when every pending request eventually resolves or rejects, every
\* invoked operation eventually returns, whatever the other operations do.
C15_EveryOperationReturns ==
    \A i \in 1..MaxOps :
        (Len(ops) >= i) ~> (Len(ops) >= i /\ ops[i].pc = "done")

C15_Witness ==
    \E i, j \in DOMAIN ops :
        /\ i < j
        /\ ops[i].kind = "add" /\ Len(ops[i].requests) = 2
        /\ ops[i].pc = "done" /\ ops[j].pc = "done"
        /\ ops[j].requests # <<>>
        /\ ops[j].finished < ops[i].finished

\* operation i committed one cart update, cart and snapshot together, silently
CommittedOnce(i) ==
    /\ ops[i].commits = 1
    /\ ops[i].toasts = <<>>
    /\ ops[i].after.storage = [state |-> "json", text |-> ops[i].after.cart]

\* operation i emitted one notification and wrote nothing
NotifiedOnce(i) ==
    /\ Len(ops[i].toasts) = 1
    /\ NothingWritten(i)

\* C16: every returned operation either committed exactly one cart update
\* (cart and persisted snapshot together) with no notification, or emitted
\* exactly one notification and wrote neither the cart nor the snapshot.
C16_CommitOrNotify ==
    \A i \in DOMAIN ops :
        ops[i].pc = "done" =>
            /\ CommittedOnce(i) \/ NotifiedOnce(i)
            /\ ~(CommittedOnce(i) /\ NotifiedOnce(i))

\* the add and update operations that ran with no other operation in flight
\* and succeeded
SucceededAlone ==
    {i \in Returned("add") \cup Returned("update") : ops[i].alone /\ Succeeded(i)}

\* operation i left every entry of another product as it was, at the position
\* it had, and added at most entries of its product after them
OnlyTargetChanged(i) ==
    LET old == ops[i].before.cart
        new == ops[i].after.cart
    IN  /\ Len(new) >= Len(old)
        /\ \A k \in DOMAIN old :
              /\ new[k].id = old[k].id
              /\ old[k].id # ops[i].productId => new[k] = old[k]
        /\ \A k \in DOMAIN new \ DOMAIN old : new[k].id = ops[i].productId

\* C17: a successful addProduct or updateProductAmount with no other operation
\* in flight leaves every entry of another product as it was, at the position
\* it had, and adds at most an entry of the targeted product after them.
C17_OnlyTargetChanges ==
    \A i \in SucceededAlone : OnlyTargetChanged(i)

\* the amounts GET stock/{productId} has reported so far
StockReports(productId) ==
    {ops[i].stockSeen :
        i \in {j \in DOMAIN ops : /\ ops[j].productId = productId
                                  /\ ops[j].stockSeen # NotAsked}}

\* every product's stock was reported as one fixed non-negative amount
StockFixed ==
    \A p \in Products :
        /\ Cardinality(StockReports(p)) <= 1
        /\ \A s \in StockReports(p) : s >= 0

\* C18: when the cart starts empty and each product's stock is one fixed
\* non-negative number, every entry's quantity is at most the stock of its
\* product in every reachable state, whatever the interleaving.
C18_WithinStock ==
    (StockFixed /\ isArray /\ loaded = <<>>) =>
        \A k \in DOMAIN CartValues :
            /\ StockReports(CartValues[k].id) # {}
            /\ \A s \in StockReports(CartValues[k].id) : CartValues[k].amount <= s

C18_Witness ==
    /\ StockFixed /\ isArray /\ loaded = <<>>
    /\ \E k \in DOMAIN CartValues :
          /\ CartValues[k].amount = 2
          /\ StockReports(CartValues[k].id) = {2}
    /\ \A i \in DOMAIN ops : ops[i].kind = "add" /\ ops[i].commits = 1

\* C19: a cart value that was set as state never changes afterwards: the
\* array an operation captured at its invocation still shows the quantities
\* it showed then, also after an increment of one of its products.
C19_PublishedCartsImmutable ==
    \A i \in DOMAIN ops : Values(heap, ops[i].snap) = ops[i].closureOn

\* the removals that went through
Removed == {i \in Returned("remove") : Succeeded(i)}

\* an addProduct of the removed product, invoked after removal i, has set the cart
AddedAgain(i) ==
    \E j \in Committed :
        /\ j > i
        /\ ops[j].kind = "add"
        /\ ops[j].productId = ops[i].productId

\* the operations that were awaiting the network when removal i happened and
\* have set the cart since
CommittedAcross(i) ==
    {j \in Committed : j < i /\ ops[j].wrote > ops[i].wrote}

\* the operations invoked after removal i, through the functions of a render
\* whose cart held the removed product, that have set the cart since
CommittedFromBefore(i) ==
    {j \in Committed : j > i /\ InCart(ops[j].closureOn, ops[i].productId)}

\* C20: once removeProduct(p) went through, p is in the cart only if an
\* addProduct(p) invoked after the removal has committed; operations already
\* in flight at the removal do not bring p back.
C20_AbsentUntilAddedAgain ==
    \A i \in Removed :
        InCart(CartValues, ops[i].productId) => AddedAgain(i)

\* C20 as amended: once removeProduct(p) went through, p is in the cart only
\* if an addProduct(p) invoked after the removal has set the cart, or an
\* operation that was in flight at the removal has, or an operation invoked
\* later on a captured cart that holds p has; and an operation in flight at the
\* removal, when it captured a cart holding p, leaves p in the cart it sets.
C20_AbsentUntilAddedOrOverwritten ==
    \A i \in Removed :
        /\ InCart(CartValues, ops[i].productId) =>
              \/ AddedAgain(i)
              \/ CommittedAcross(i) # {}
              \/ CommittedFromBefore(i) # {}
        /\ \A j \in CommittedAcross(i) :
              InCart(ops[j].closureOn, ops[i].productId) =>
                  InCart(ops[j].after.cart, ops[i].productId)

C20_Witness ==
    \E i \in Removed :
        /\ ~InCart(ops[i].after.cart, ops[i].productId)
        /\ ~AddedAgain(i)
        /\ \E j \in CommittedAcross(i) :
              /\ ops[j].kind = "update"
              /\ ops[j].productId = ops[i].productId
        /\ InCart(CartValues, ops[i].productId)

====
